---- MODULE Spec2Model ----
(***************************************************************************)
(* Model of package parashari (go-vedic-astro-charts): GenerateChart and   *)
(* the two renderers GenerateNorthChart / GenerateSouthChart.              *)
(*                                                                         *)
(* The drawing surface (gg.Context) is modelled by its current colour,     *)
(* line width and font, and by the log of draw calls issued on it.  Go     *)
(* strings are TLA+ strings; Go's map iteration order is a nondeterministic *)
(* choice of a permutation of the map's keys at every range loop.          *)
(***************************************************************************)
EXTENDS Integers, Sequences, FiniteSets, TLC

VARIABLES
    input,          \* the ChartInput of this call
    pc,             \* position of the call in the code
    slot,           \* houseNum (south) / positionNum (north) of the next cell
    lagnaRashiNum,  \* local lagnaRashiNum (north) / lagnaRashi (south); 0 = not yet set
    dc,             \* drawing context state: colour, line width, font face
    draws,          \* log of the draw calls issued on dc
    cells,          \* per cell: rashiNum used, regularPlanets, specialLagnas, planets visited
    result,         \* (string, error) returned by GenerateChart
    embedded,       \* what opentype makes of the two embedded font files
    encoder         \* whether png.Encode succeeds on the image of this call

vars == <<input, pc, slot, lagnaRashiNum, dc, draws, cells, result, embedded, encoder>>

-----------------------------------------------------------------------------
(* Bounds of the model *)

\* largest number of entries of input.Planets
MaxPlanets == 2

-----------------------------------------------------------------------------
(* Go values *)

\* a nil *Planet
Nil == [nil |-> TRUE]

\* a nil error
NoErr == "<nil>"

\* strings.ToLower on one character
ToLowerChar(c) ==
    CASE c = "A" -> "a" [] c = "B" -> "b" [] c = "C" -> "c" [] c = "D" -> "d"
      [] c = "E" -> "e" [] c = "F" -> "f" [] c = "G" -> "g" [] c = "H" -> "h"
      [] c = "I" -> "i" [] c = "J" -> "j" [] c = "K" -> "k" [] c = "L" -> "l"
      [] c = "M" -> "m" [] c = "N" -> "n" [] c = "O" -> "o" [] c = "P" -> "p"
      [] c = "Q" -> "q" [] c = "R" -> "r" [] c = "S" -> "s" [] c = "T" -> "t"
      [] c = "U" -> "u" [] c = "V" -> "v" [] c = "W" -> "w" [] c = "X" -> "x"
      [] c = "Y" -> "y" [] c = "Z" -> "z" [] OTHER -> c

\* strings.ToLower: lower[i] is the lowered prefix of length i
ToLower(s) ==
    LET lower[i \in 0..Len(s)] ==
            IF i = 0 THEN "" ELSE lower[i - 1] \o ToLowerChar(SubSeq(s, i, i))
    IN  lower[Len(s)]

\* strings.Contains
Contains(s, substr) ==
    \E i \in 1..(Len(s) - Len(substr) + 1) :
        SubSeq(s, i, i + Len(substr) - 1) = substr

\* fmt.Sprintf("%d", n) for the numbers the renderers print
Sprintf_d(n) ==
    CASE n = 0 -> "0" [] n = 1 -> "1" [] n = 2 -> "2" [] n = 3 -> "3"
      [] n = 4 -> "4" [] n = 5 -> "5" [] n = 6 -> "6" [] n = 7 -> "7"
      [] n = 8 -> "8" [] n = 9 -> "9" [] n = 10 -> "10" [] n = 11 -> "11"
      [] n = 12 -> "12"

\* the orders in which a range loop can visit the keys S of a map
Orders(S) ==
    {o \in [1..Cardinality(S) -> S] : \A i, j \in 1..Cardinality(S) : i # j => o[i] # o[j]}

-----------------------------------------------------------------------------
(* chart.go: registry *)

ChartTypeNorth == "north"
ChartTypeSouth == "south"
ChartTypeEast == "east"
ChartTypeWest == "west"

\* the map rashiMap of RashiToNumber
rashiMap ==
    [aries |-> 1, taurus |-> 2, gemini |-> 3, cancer |-> 4, leo |-> 5, virgo |-> 6,
     libra |-> 7, scorpio |-> 8, sagittarius |-> 9, capricorn |-> 10,
     aquarius |-> 11, pisces |-> 12]

\* a conversion that answers Aries for a name the map does not hold
RashiToNumber_DefaultAries(rashi) ==
    LET r == ToLower(rashi)
    IN  IF r \in DOMAIN rashiMap THEN rashiMap[r] ELSE 1

\* RashiToNumber: rashi name to number 1..12, 0 when the name is not known
RashiToNumber(rashi) ==
    LET r == ToLower(rashi)
    IN  IF r \in DOMAIN rashiMap THEN rashiMap[r] ELSE 0

\* the map abbrevMap of GetPlanetAbbreviation
abbrevMap ==
    [sun |-> "Su", moon |-> "Mo", mars |-> "Ma", mercury |-> "Me", jupiter |-> "Ju",
     venus |-> "Ve", saturn |-> "Sa", rahu |-> "Ra", ketu |-> "Ke", lagna |-> "Asc",
     upaketu |-> "Up", mandi |-> "Mn", gulika |-> "Gu", yamaghantaka |-> "Ya",
     ardhaprahara |-> "Ar", kala |-> "Ka", dhuma |-> "Dh", vyatipata |-> "Vy",
     parivesha |-> "Pa", indrachapa |-> "In", upagraha |-> "Up"]

\* a lookup without strings.ToLower
GetPlanetAbbreviation_CaseSensitive(planetName) ==
    IF planetName \in DOMAIN abbrevMap THEN abbrevMap[planetName] ELSE ""

\* GetPlanetAbbreviation: "" (the zero value) for a name the map lacks
GetPlanetAbbreviation(planetName) ==
    LET n == ToLower(planetName)
    IN  IF n \in DOMAIN abbrevMap THEN abbrevMap[n] ELSE ""

\* GetPlanetDisplayName
GetPlanetDisplayName(planetName, planet) ==
    IF planet # Nil /\ planet.Display # "" THEN planet.Display
    ELSE GetPlanetAbbreviation(planetName)

\* IsSpecialLagnaAbbrev: the predicate that sends a label to the special group.
\* Its source is not among the files of src/; the labels it accepts are taken
\* to be those of the hora lagna display "HL", with or without R/C suffix.
IsSpecialLagnaAbbrev(abbrev, inp) ==
    Len(abbrev) >= 2 /\ SubSeq(abbrev, 1, 2) = "HL"

-----------------------------------------------------------------------------
(* fonts.go *)

\* what the bytes of an embedded font file can be: a font, bytes that
\* opentype.Parse rejects, a font of which opentype.NewFace makes no face
FontData == {"ok", "parseError", "faceError"}

matangiRegularFont == [name |-> "Matangi-Regular", data |-> embedded.regular]
matangiBoldFont == [name |-> "Matangi-Bold", data |-> embedded.bold]
basicfont_Face7x13 == <<"basicfont.Face7x13", 13>>

\* a loader that leaves the face of the context alone when loading fails
loadEmbeddedFont_KeepFace(d, fontData, fsize) ==
    IF fontData.data = "parseError" THEN [dc |-> d, err |-> "opentype: parse"]
    ELSE IF fontData.data = "faceError" THEN [dc |-> d, err |-> "opentype: face"]
    ELSE [dc |-> [d EXCEPT !.font = <<fontData.name, fsize>>], err |-> NoErr]

\* loadEmbeddedFont: the context with the face set on it, and the error returned
loadEmbeddedFont(d, fontData, fsize) ==
    IF fontData.data = "parseError"
    THEN [dc |-> [d EXCEPT !.font = basicfont_Face7x13], err |-> "opentype: parse"]
    ELSE IF fontData.data = "faceError"
    THEN [dc |-> [d EXCEPT !.font = basicfont_Face7x13], err |-> "opentype: face"]
    ELSE [dc |-> [d EXCEPT !.font = <<fontData.name, fsize>>], err |-> NoErr]

\* the two wrappers drop the error
loadMatangiRegular(d, fsize) == loadEmbeddedFont(d, matangiRegularFont, fsize).dc
loadMatangiBold(d, fsize) == loadEmbeddedFont(d, matangiBoldFont, fsize).dc

-----------------------------------------------------------------------------
(* drawing surface *)

\* colours, in hundredths of the SetRGB arguments
White == <<100, 100, 100>>
Black == <<0, 0, 0>>
Saffron == <<100, 60, 20>>
Yellow == <<100, 85, 0>>

\* gg.NewContext: black, line width 1, default face
NewContext == [rgb |-> Black, lineWidth |-> 1, font |-> basicfont_Face7x13]

SetRGB(d, c) == [d EXCEPT !.rgb = c]
SetLineWidth(d, w) == [d EXCEPT !.lineWidth = w]

\* dc.DrawStringAnchored(s, x, y, ax, ay) under a rotation of rot degrees;
\* the anchors are recorded doubled (ax2 = 2*ax, ay2 = 2*ay)
DrawStringAnchored(d, s, x, y, ax2, ay2, rot) ==
    [op |-> "text", s |-> s, x |-> x, y |-> y, ax2 |-> ax2, ay2 |-> ay2,
     rot |-> rot, rgb |-> d.rgb, font |-> d.font]

\* dc.DrawLine(x1, y1, x2, y2); dc.Stroke()
DrawLine(d, x1, y1, x2, y2) ==
    [op |-> "line", x1 |-> x1, y1 |-> y1, x2 |-> x2, y2 |-> y2,
     w |-> d.lineWidth, rgb |-> d.rgb]

\* a stroked shape of the north frame, whose coordinates are not integers
DrawShape(d, shape, rot) ==
    [op |-> "shape", shape |-> shape, rot |-> rot, w |-> d.lineWidth, rgb |-> d.rgb]

IsText(c) == c.op = "text"

-----------------------------------------------------------------------------
(* occupants of a cell: the range loop over input.Planets *)

\* a label with the two suffixes in the other order
PlanetLabel_CR(planetName, planet) ==
    LET a0 == GetPlanetDisplayName(planetName, planet)
        a1 == IF planet.IsCombust THEN a0 \o "C" ELSE a0
    IN  IF planet.IsRetrograde THEN a1 \o "R" ELSE a1

\* the label of a planet entry: its display name, "R" if retrograde, then "C"
\* if combust
PlanetLabel(planetName, planet) ==
    LET a0 == GetPlanetDisplayName(planetName, planet)
        a1 == IF planet.IsRetrograde THEN a0 \o "R" ELSE a0
    IN  IF planet.IsCombust THEN a1 \o "C" ELSE a1

\* a visit that forgets the entries with a special label
VisitPlanet_DropSpecial(inp, rashiNum, planetName, acc) ==
    LET planet == inp.Planets[planetName]
        planetRashiNum == RashiToNumber(planet.Rashi)
        abbrev == PlanetLabel(planetName, planet)
    IN  IF planetRashiNum > 0 /\ planetRashiNum = rashiNum
              /\ ~IsSpecialLagnaAbbrev(abbrev, inp)
        THEN [acc EXCEPT !.regular = Append(@, abbrev), !.who = Append(@, planetName)]
        ELSE acc

\* a visit that sends every entry flagged as upagraha to the special group
VisitPlanet_UpagrahaSpecial(inp, rashiNum, planetName, acc) ==
    LET planet == inp.Planets[planetName]
        planetRashiNum == RashiToNumber(planet.Rashi)
        abbrev == PlanetLabel(planetName, planet)
    IN  IF planetRashiNum > 0 /\ planetRashiNum = rashiNum
        THEN IF IsSpecialLagnaAbbrev(abbrev, inp) \/ planet.IsUpagraha
             THEN [acc EXCEPT !.special = Append(@, abbrev), !.who = Append(@, planetName)]
             ELSE [acc EXCEPT !.regular = Append(@, abbrev), !.who = Append(@, planetName)]
        ELSE acc

\* the body of "for planetName, planet := range input.Planets" for one
\* entry; acc holds regularPlanets, specialLagnas and the names of the
\* entries that were appended
VisitPlanet(inp, rashiNum, planetName, acc) ==
    LET planet == inp.Planets[planetName]
        planetRashiNum == RashiToNumber(planet.Rashi)
        abbrev == PlanetLabel(planetName, planet)
    IN  IF planetRashiNum > 0 /\ planetRashiNum = rashiNum
        THEN IF IsSpecialLagnaAbbrev(abbrev, inp)
             THEN [acc EXCEPT !.special = Append(@, abbrev), !.who = Append(@, planetName)]
             ELSE [acc EXCEPT !.regular = Append(@, abbrev), !.who = Append(@, planetName)]
        ELSE acc

\* the whole loop, visiting the entries in `order`: after[i] is acc after i entries
CollectPlanets(inp, rashiNum, order, acc) ==
    LET after[i \in 0..Len(order)] ==
            IF i = 0 THEN acc ELSE VisitPlanet(inp, rashiNum, order[i], after[i - 1])
    IN  after[Len(order)]

\* a lagna label that takes the suffixes of a planet's label
LagnaLabel_Suffixed(inp) == PlanetLabel("lagna", inp.Lagna)

\* the lagna label, appended to regularPlanets before the loop
LagnaLabel(inp) == GetPlanetDisplayName("lagna", inp.Lagna)

\* a collector that appends the lagna label after the planets
CollectCell_LagnaLast(inp, rashiNum, lagnaHere, order) ==
    LET acc == CollectPlanets(inp, rashiNum, order,
                   [regular |-> <<>>, special |-> <<>>, who |-> <<>>])
    IN  IF lagnaHere
        THEN [acc EXCEPT !.regular = Append(@, LagnaLabel(inp))]
        ELSE acc

\* regularPlanets / specialLagnas of a cell; lagnaHere is the condition under
\* which the renderer adds the lagna to this cell
CollectCell(inp, rashiNum, lagnaHere, order) ==
    CollectPlanets(inp, rashiNum, order,
        [regular |-> IF lagnaHere THEN <<LagnaLabel(inp)>> ELSE <<>>,
         special |-> <<>>,
         who |-> <<>>])

\* a range loop over a map holding a nil *Planet dereferences it
HasNilPlanet(inp) == \E n \in DOMAIN inp.Planets : inp.Planets[n] = Nil

-----------------------------------------------------------------------------
(* label placement: the two drawing loops of a cell *)

\* a loop that colours only the label that is exactly "Asc"
DrawRegularPlanets_ExactAsc(d, regular, leftX, planetY, step) ==
    [i \in 1..Len(regular) |->
        DrawStringAnchored(
            IF regular[i] = "Asc" THEN SetRGB(d, Saffron) ELSE SetRGB(d, Black),
            regular[i], leftX, planetY + (i - 1) * step, 2, 1, 0)]

\* a loop that draws no more than the first two labels of the stack
DrawRegularPlanets_Capped(d, regular, leftX, planetY, step) ==
    [i \in 1..(IF Len(regular) > 2 THEN 2 ELSE Len(regular)) |->
        DrawStringAnchored(
            IF Contains(regular[i], "Asc") THEN SetRGB(d, Saffron) ELSE SetRGB(d, Black),
            regular[i], leftX, planetY + (i - 1) * step, 2, 1, 0)]

\* "for i, planetAbbrev := range regularPlanets": one draw call per entry,
\* right-anchored at leftX, saffron when the label contains "Asc"
DrawRegularPlanets(d, regular, leftX, planetY, step) ==
    [i \in 1..Len(regular) |->
        DrawStringAnchored(
            IF Contains(regular[i], "Asc") THEN SetRGB(d, Saffron) ELSE SetRGB(d, Black),
            regular[i], leftX, planetY + (i - 1) * step, 2, 1, 0)]

\* a loop that stacks the special lagnas below the rows of the regular planets
DrawSpecialLagnas_Stacked(d, regular, special, rightX, planetY, step) ==
    [i \in 1..Len(special) |->
        DrawStringAnchored(SetRGB(d, Yellow), special[i], rightX,
                           planetY + (Len(regular) + i - 1) * step, 0, 1, 0)]

\* "for i := 0; i < maxItems; i++ { if i < len(specialLagnas) ... }"
DrawSpecialLagnas(d, regular, special, rightX, planetY, step) ==
    LET maxItems == IF Len(special) > Len(regular) THEN Len(special) ELSE Len(regular)
        idx == SelectSeq([i \in 1..maxItems |-> i], LAMBDA i : i <= Len(special))
    IN  [k \in 1..Len(idx) |->
            DrawStringAnchored(SetRGB(d, Yellow), special[idx[k]], rightX,
                               planetY + (idx[k] - 1) * step, 0, 1, 0)]

-----------------------------------------------------------------------------
(* south_chart.go: geometry *)

size == 800
padding == 40
gridSize == size - 2 * padding
\* float64(gridSize) / 4, which is exact
cellSize == gridSize \div 4

\* image.Rect: the rectangle with Min <= Max in both coordinates
image_Rect(x0, y0, x1, y1) ==
    [MinX |-> IF x0 > x1 THEN x1 ELSE x0, MinY |-> IF y0 > y1 THEN y1 ELSE y0,
     MaxX |-> IF x0 > x1 THEN x0 ELSE x1, MaxY |-> IF y0 > y1 THEN y0 ELSE y1]

\* a table whose left column runs downward: houses 10 and 11 change places
houseRects_LeftColumnDown(h) ==
    CASE h = 12 -> image_Rect(padding, padding, padding + cellSize, padding + cellSize)
      [] h = 1 -> image_Rect(padding + cellSize, padding, padding + 2 * cellSize, padding + cellSize)
      [] h = 2 -> image_Rect(padding + 2 * cellSize, padding, padding + 3 * cellSize, padding + cellSize)
      [] h = 3 -> image_Rect(padding + 3 * cellSize, padding, padding + 4 * cellSize, padding + cellSize)
      [] h = 4 -> image_Rect(padding + 3 * cellSize, padding + cellSize, padding + 4 * cellSize, padding + 2 * cellSize)
      [] h = 5 -> image_Rect(padding + 3 * cellSize, padding + 2 * cellSize, padding + 4 * cellSize, padding + 3 * cellSize)
      [] h = 6 -> image_Rect(padding + 3 * cellSize, padding + 3 * cellSize, padding + 4 * cellSize, padding + 4 * cellSize)
      [] h = 7 -> image_Rect(padding + 2 * cellSize, padding + 3 * cellSize, padding + 3 * cellSize, padding + 4 * cellSize)
      [] h = 8 -> image_Rect(padding + cellSize, padding + 3 * cellSize, padding + 2 * cellSize, padding + 4 * cellSize)
      [] h = 9 -> image_Rect(padding, padding + 3 * cellSize, padding + cellSize, padding + 4 * cellSize)
      [] h = 11 -> image_Rect(padding, padding + 2 * cellSize, padding + cellSize, padding + 3 * cellSize)
      [] h = 10 -> image_Rect(padding, padding + cellSize, padding + cellSize, padding + 2 * cellSize)

\* the map houseRects, by house number
houseRects(h) ==
    CASE h = 12 -> image_Rect(padding, padding, padding + cellSize, padding + cellSize)
      [] h = 1 -> image_Rect(padding + cellSize, padding, padding + 2 * cellSize, padding + cellSize)
      [] h = 2 -> image_Rect(padding + 2 * cellSize, padding, padding + 3 * cellSize, padding + cellSize)
      [] h = 3 -> image_Rect(padding + 3 * cellSize, padding, padding + 4 * cellSize, padding + cellSize)
      [] h = 4 -> image_Rect(padding + 3 * cellSize, padding + cellSize, padding + 4 * cellSize, padding + 2 * cellSize)
      [] h = 5 -> image_Rect(padding + 3 * cellSize, padding + 2 * cellSize, padding + 4 * cellSize, padding + 3 * cellSize)
      [] h = 6 -> image_Rect(padding + 3 * cellSize, padding + 3 * cellSize, padding + 4 * cellSize, padding + 4 * cellSize)
      [] h = 7 -> image_Rect(padding + 2 * cellSize, padding + 3 * cellSize, padding + 3 * cellSize, padding + 4 * cellSize)
      [] h = 8 -> image_Rect(padding + cellSize, padding + 3 * cellSize, padding + 2 * cellSize, padding + 4 * cellSize)
      [] h = 9 -> image_Rect(padding, padding + 3 * cellSize, padding + cellSize, padding + 4 * cellSize)
      [] h = 10 -> image_Rect(padding, padding + 2 * cellSize, padding + cellSize, padding + 3 * cellSize)
      [] h = 11 -> image_Rect(padding, padding + cellSize, padding + cellSize, padding + 2 * cellSize)

\* the outer square and the 25 cell boundary lines, in the order they are stroked
SouthFrameDraws ==
    LET d2 == SetLineWidth(SetRGB(NewContext, Black), 2)
        d1 == SetLineWidth(d2, 1)
        p == padding
        c == cellSize
        x0 == p
        x1 == p + c
        x2 == p + 2 * c
        x3 == p + 3 * c
        x4 == p + 4 * c
        y1 == p + c
        y2 == p + 2 * c
        y3 == p + 3 * c
        y4 == p + 4 * c
    IN  << [op |-> "clear", rgb |-> White],
           [op |-> "rect", x |-> p, y |-> p, wd |-> gridSize, ht |-> gridSize,
            w |-> d2.lineWidth, rgb |-> d2.rgb],
           DrawLine(d1, x1, p, x1, p + c),
           DrawLine(d1, x2, p, x2, p + c),
           DrawLine(d1, x3, p, x3, p + c),
           DrawLine(d1, x3, p + c, x3, p + 2 * c),
           DrawLine(d1, x4, p, x4, p + c),
           DrawLine(d1, x4, p + c, x4, p + 4 * c),
           DrawLine(d1, x3, p + 2 * c, x3, p + 3 * c),
           DrawLine(d1, x3, p + 3 * c, x3, p + 4 * c),
           DrawLine(d1, x2, p + 3 * c, x2, p + 4 * c),
           DrawLine(d1, x1, p + 3 * c, x1, p + 4 * c),
           DrawLine(d1, x0, p + 3 * c, x0, p + 4 * c),
           DrawLine(d1, x0, p + 2 * c, x0, p + 3 * c),
           DrawLine(d1, x0, p + c, x0, p + 2 * c),
           DrawLine(d1, x0, p, x0, p + c),
           DrawLine(d1, x1, p + c, x1, p + 3 * c),
           DrawLine(d1, x1, p, x1, p + c),
           DrawLine(d1, x1, y1, x4, y1),
           DrawLine(d1, x0, y1, x1, y1),
           DrawLine(d1, x3, y2, x4, y2),
           DrawLine(d1, x0, y2, x1, y2),
           DrawLine(d1, x0, y3, x1, y3),
           DrawLine(d1, x1, y3, x2, y3),
           DrawLine(d1, x2, y3, x3, y3),
           DrawLine(d1, x3, y3, x4, y3),
           DrawLine(d1, x0, y4, x4, y4) >>

\* a resolution without the default to Aries
ResolveLagnaRashi_NoDefault(inp) ==
    IF inp.Lagna # Nil THEN RashiToNumber(inp.Lagna.Rashi) ELSE 0

\* "var lagnaRashi int; if input.Lagna != nil {...}; if lagnaRashi == 0 {lagnaRashi = 1}"
\* (the same statements compute lagnaRashiNum in GenerateNorthChart)
ResolveLagnaRashi(inp) ==
    LET n == IF inp.Lagna # Nil THEN RashiToNumber(inp.Lagna.Rashi) ELSE 0
    IN  IF n = 0 THEN 1 ELSE n

\* the two parallel diagonal lines at the bottom-left corner of the lagna cell
LagnaIndicator(d, rect) ==
    LET cornerX == rect.MinX + 15
        cornerY == rect.MaxY
        lineLength == 15
        offset == 3
        cos90 == 0
        sin90 == 1
        dx1 == lineLength * cos90 - (-lineLength) * sin90
        dy1 == lineLength * sin90 + (-lineLength) * cos90
        dx2 == dx1 * cos90 - dy1 * sin90
        dy2 == dx1 * sin90 + dy1 * cos90
        dx == dx2 * cos90 - dy2 * sin90
        dy == dx2 * sin90 + dy2 * cos90
        d2 == SetLineWidth(d, 2)
    IN  << DrawLine(d2, cornerX, cornerY, cornerX + dx, cornerY + dy),
           DrawLine(d2, cornerX + offset, cornerY - offset,
                    cornerX + dx + offset, cornerY + dy - offset) >>

\* a house loop whose rashi runs one ahead of the house
SouthRashiNum_Shift(houseNum) == (houseNum % 12) + 1

\* the value of rashiNum in the body of the house loop
SouthRashiNum(houseNum) == houseNum

\* a condition without "input.Lagna != nil"
SouthLagnaHere_IgnoresNil(inp, lagnaRashi, rashiNum) ==
    lagnaRashi > 0 /\ rashiNum = lagnaRashi

\* the condition under which a house gets the lagna indicator and the lagna label
SouthLagnaHere(inp, lagnaRashi, rashiNum) ==
    inp.Lagna # Nil /\ lagnaRashi > 0 /\ rashiNum = lagnaRashi

\* regularPlanets and specialLagnas of a house, the map visited in `order`
SouthOccupants(inp, lagnaRashi, houseNum, order) ==
    CollectCell(inp, SouthRashiNum(houseNum),
                SouthLagnaHere(inp, lagnaRashi, SouthRashiNum(houseNum)), order)

\* the rashi number of a house and, in the lagna house, the lagna indicator
SouthNumberDraws(inp, d, lagnaRashi, houseNum) ==
    LET rect == houseRects(houseNum)
        rashiNum == SouthRashiNum(houseNum)
        rashiStr == Sprintf_d(rashiNum)
        textX == rect.MaxX - 10
        textY == rect.MaxY - 29
        dA == SetRGB(d, Black)
    IN  <<DrawStringAnchored(dA, rashiStr, textX, textY, 2, 2, 0)>>
          \o (IF SouthLagnaHere(inp, lagnaRashi, rashiNum)
              THEN LagnaIndicator(dA, rect) ELSE <<>>)

\* the labels of a house: regular planets left of the centre, special lagnas right
SouthLabelDraws(d, houseNum, occ) ==
    LET rect == houseRects(houseNum)
        dC == loadMatangiBold(SetRGB(d, Black), 22)
        \* float64(rect.Min.X+rect.Max.X) / 2: the sum is even for every house
        centerX == (rect.MinX + rect.MaxX) \div 2
        planetY == rect.MinY + 25
        leftX == centerX - 25
        rightX == centerX + 25
    IN  DrawRegularPlanets(dC, occ.regular, leftX, planetY, 25)
          \o DrawSpecialLagnas(dC, occ.regular, occ.special, rightX, planetY, 25)

\* one iteration of "for houseNum := 1; houseNum <= 12; houseNum++" with the
\* occupants occ: the draw calls it issues, the context it leaves, its record
SouthHouseBody(inp, d, lagnaRashi, houseNum, occ) ==
    [draws |-> SouthNumberDraws(inp, d, lagnaRashi, houseNum)
                 \o SouthLabelDraws(d, houseNum, occ),
     dc |-> loadMatangiRegular(
                SetRGB(IF SouthLagnaHere(inp, lagnaRashi, SouthRashiNum(houseNum))
                       THEN SetLineWidth(d, 1) ELSE d, Black), 16),
     cell |-> [rashiNum |-> SouthRashiNum(houseNum),
               rashiStr |-> Sprintf_d(SouthRashiNum(houseNum)),
               regular |-> occ.regular, special |-> occ.special, who |-> occ.who,
               done |-> TRUE]]

-----------------------------------------------------------------------------
(* north_chart.go: geometry and rotation *)

\* the table rashiPositions, by position number 2..12:
\* rashi number position (x, y), rotation angle in degrees, planet position
rashiPositions(position) ==
    CASE position = 2 -> [x |-> 220, y |-> 160, angle |-> -5, planetX |-> 180, planetY |-> 70]
      [] position = 3 -> [x |-> 70, y |-> 300, angle |-> -1, planetX |-> 60, planetY |-> 150]
      [] position = 4 -> [x |-> 220, y |-> 500, angle |-> -1, planetX |-> 200, planetY |-> 310]
      [] position = 5 -> [x |-> 70, y |-> 670, angle |-> -1, planetX |-> 60, planetY |-> 500]
      [] position = 6 -> [x |-> 130, y |-> 720, angle |-> -1, planetX |-> 180, planetY |-> 640]
      [] position = 7 -> [x |-> 400, y |-> 680, angle |-> -1, planetX |-> 380, planetY |-> 480]
      [] position = 8 -> [x |-> 650, y |-> 725, angle |-> -1, planetX |-> 540, planetY |-> 660]
      [] position = 9 -> [x |-> 730, y |-> 660, angle |-> -1, planetX |-> 690, planetY |-> 500]
      [] position = 10 -> [x |-> 580, y |-> 500, angle |-> -1, planetX |-> 550, planetY |-> 330]
      [] position = 11 -> [x |-> 720, y |-> 300, angle |-> -1, planetX |-> 700, planetY |-> 130]
      [] position = 12 -> [x |-> 580, y |-> 160, angle |-> -1, planetX |-> 520, planetY |-> 70]

\* a closure without "if rashiNum == 0 { rashiNum = 12 }"
getRashiForPosition_NoWrap(lagnaNum, position) ==
    IF position = 1 THEN lagnaNum
    ELSE (lagnaNum + (position - 1)) % 12

\* a closure with "offset := position"
getRashiForPosition_OffByOne(lagnaNum, position) ==
    IF position = 1 THEN lagnaNum
    ELSE
        LET offset == position
            rashiNum == (lagnaNum + offset) % 12
        IN  IF rashiNum = 0 THEN 12 ELSE rashiNum

\* the closure getRashiForPosition
getRashiForPosition(lagnaNum, position) ==
    IF position = 1 THEN lagnaNum
    ELSE
        LET offset == position - 1
            rashiNum == (lagnaNum + offset) % 12
        IN  IF rashiNum = 0 THEN 12 ELSE rashiNum

\* a number-drawing loop with "offset := i"
NumberPassRashi_FromIndex(lagnaNum, i) ==
    LET offset == i
        rashiNum == (lagnaNum + offset) % 12
    IN  IF rashiNum = 0 THEN 12 ELSE rashiNum

\* rashiNum of the number-drawing loop, whose index i runs over 0..10
NumberPassRashi(lagnaNum, i) ==
    LET offset == i + 1
        rashiNum == (lagnaNum + offset) % 12
    IN  IF rashiNum = 0 THEN 12 ELSE rashiNum

\* outer square, inner square and the two splitting lines
NorthFrameDraws ==
    LET d3 == SetLineWidth(SetRGB(NewContext, Black), 3)
        d2 == SetLineWidth(d3, 2)
    IN  << [op |-> "clear", rgb |-> White],
           DrawShape(d3, "outerSquare", 90),
           DrawShape(d2, "innerSquare", -45),
           DrawShape(d2, "splitLine1", -45),
           DrawShape(d2, "splitLine2", -45) >>

\* the lagna rashi number, drawn at (400, 300) rotated by 5 degrees
NorthLagnaNumberDraw(d, lagnaNum) ==
    DrawStringAnchored(d, Sprintf_d(lagnaNum), 400, 300, 1, 1, 5)

\* the loop that draws the rashi numbers of positions 2..12
NorthNumberDraws(d, lagnaNum) ==
    [k \in 1..11 |->
        LET pos == rashiPositions(k + 1)
        IN  DrawStringAnchored(d, Sprintf_d(NumberPassRashi(lagnaNum, k - 1)),
                               pos.x, pos.y, 1, 1, pos.angle)]

\* a condition without "input.Lagna != nil"
NorthLagnaHere_IgnoresNil(inp, lagnaNum, rashiNum) ==
    rashiNum = lagnaNum

\* the condition under which a position gets the lagna label
NorthLagnaHere(inp, lagnaNum, rashiNum) ==
    inp.Lagna # Nil /\ rashiNum = lagnaNum

\* the two drawing loops without "dc.SetRGB(0, 0, 0) // Reset to black": the
\* context keeps the colour of the last label
NorthLabels_NoReset(d, occ, leftX, rightX, planetY) ==
    IF Len(occ.regular) > 0 \/ Len(occ.special) > 0
    THEN LET ds == DrawRegularPlanets(d, occ.regular, leftX, planetY, 20)
                     \o DrawSpecialLagnas(d, occ.regular, occ.special, rightX, planetY, 20)
         IN  [draws |-> ds, dc |-> SetRGB(d, ds[Len(ds)].rgb)]
    ELSE [draws |-> <<>>, dc |-> d]

\* the two drawing loops of a position, run only when it has an occupant;
\* the colour is reset to black at their end
NorthLabels(d, occ, leftX, rightX, planetY) ==
    IF Len(occ.regular) > 0 \/ Len(occ.special) > 0
    THEN [draws |-> DrawRegularPlanets(d, occ.regular, leftX, planetY, 20)
                      \o DrawSpecialLagnas(d, occ.regular, occ.special, rightX, planetY, 20),
          dc |-> SetRGB(d, Black)]
    ELSE [draws |-> <<>>, dc |-> d]

\* regularPlanets and specialLagnas of a position, the map visited in `order`
NorthOccupants(inp, lagnaNum, positionNum, order) ==
    LET rashiNum == getRashiForPosition(lagnaNum, positionNum)
    IN  CollectCell(inp, rashiNum, NorthLagnaHere(inp, lagnaNum, rashiNum), order)

\* the anchor of a position's labels: (leftX, rightX, planetY)
NorthAnchor(positionNum) ==
    IF positionNum = 1 THEN [leftX |-> 360, rightX |-> 400, planetY |-> 140]
    ELSE
        \* every row of the table sets a planet position, so the offset branch
        \* (30*cos(angle), 30*sin(angle)) is never taken
        LET pos == rashiPositions(positionNum)
            baseX == pos.planetX
            baseY == pos.planetY
        IN  [leftX |-> baseX - 20, rightX |-> baseX + 20, planetY |-> baseY]

\* "Draw planets for position 1" and one iteration of "Draw planets for
\* positions 2-12", with the occupants occ
NorthPositionBody(inp, d, lagnaNum, positionNum, occ) ==
    LET a == NorthAnchor(positionNum)
        out == NorthLabels(d, occ, a.leftX, a.rightX, a.planetY)
    IN  [draws |-> out.draws, dc |-> out.dc,
         cell |-> [rashiNum |-> getRashiForPosition(lagnaNum, positionNum),
                   regular |-> occ.regular, special |-> occ.special, who |-> occ.who,
                   done |-> TRUE]]

-----------------------------------------------------------------------------
(* centre text, encoding *)

RECURSIVE strings_Split(_, _)
\* strings.Split(s, sep) for a one-character separator
strings_Split(s, sep) ==
    IF \A i \in 1..Len(s) : SubSeq(s, i, i) # sep THEN <<s>>
    ELSE
        LET i == CHOOSE k \in 1..Len(s) :
                    SubSeq(s, k, k) = sep /\ \A j \in 1..(k - 1) : SubSeq(s, j, j) # sep
        IN  <<SubSeq(s, 1, i - 1)>> \o strings_Split(SubSeq(s, i + 1, Len(s)), sep)

\* a renderer that ignores the centre text
SouthCenterDraws_None(d, centerText) == <<>>

\* "Draw center text if provided": one draw call per non-empty line; the
\* vertical coordinate is recorded doubled (lineHeight/2 is not an integer)
SouthCenterDraws(d, centerText) ==
    LET centerX == padding + 2 * cellSize
        centerY == padding + 2 * cellSize
        lines == strings_Split(centerText, "\n")
        lineHeight == 25
        startY2 == 2 * centerY - (Len(lines) - 1) * lineHeight
        idx == SelectSeq([i \in 1..Len(lines) |-> i], LAMBDA i : lines[i] # "")
    IN  [k \in 1..Len(idx) |->
            [op |-> "centertext", s |-> lines[idx[k]], x |-> centerX,
             y2 |-> startY2 + 2 * (idx[k] - 1) * lineHeight,
             ax2 |-> 1, ay2 |-> 1, rgb |-> d.rgb, font |-> d.font]]

\* the eight bytes every PNG stream starts with
PNGSignature == <<137, 80, 78, 71, 13, 10, 26, 10>>

\* the pixels are not modelled: a draw call contributes one byte to the stream
DrawByte(c) ==
    CASE c.op = "text" -> (c.x + c.y + Len(c.s)) % 256
      [] c.op = "centertext" -> (c.x + c.y2 + Len(c.s)) % 256
      [] c.op = "line" -> (c.x1 + c.y1 + c.x2 + c.y2 + c.w) % 256
      [] OTHER -> 0

\* png.Encode(&buf, img): the stream written to buf and the error; a failing
\* encoder leaves the part of the stream it had written
png_Encode(image) ==
    IF encoder = "fails"
    THEN [buf |-> PNGSignature, err |-> "png: encode"]
    ELSE [buf |-> PNGSignature \o [i \in 1..Len(image) |-> DrawByte(image[i])],
          err |-> NoErr]

\* encodePNG(dc.Image()): (nil, err) when png.Encode fails, else the bytes
encodePNG(image) ==
    IF png_Encode(image).err # NoErr
    THEN [bytes |-> <<>>, err |-> png_Encode(image).err]
    ELSE [bytes |-> png_Encode(image).buf, err |-> NoErr]

\* the alphabet of base64.StdEncoding
encodeStd == "ABCDEFGHIJKLMNOPQRSTUVWXYZabcdefghijklmnopqrstuvwxyz0123456789+/"

B64Char(v) == SubSeq(encodeStd, v + 1, v + 1)

\* an encoder without padding, as base64.RawStdEncoding
base64_EncodeToString_Raw(src) ==
    LET n == Len(src)
        Quad(i) ==
            LET b1 == src[3 * i - 2]
                b2 == IF 3 * i - 1 <= n THEN src[3 * i - 1] ELSE 0
                b3 == IF 3 * i <= n THEN src[3 * i] ELSE 0
            IN  B64Char(b1 \div 4) \o B64Char((b1 % 4) * 16 + b2 \div 16)
                  \o (IF 3 * i - 1 <= n THEN B64Char((b2 % 16) * 4 + b3 \div 64) ELSE "")
                  \o (IF 3 * i <= n THEN B64Char(b3 % 64) ELSE "")
        enc[i \in 0..((n + 2) \div 3)] == IF i = 0 THEN "" ELSE enc[i - 1] \o Quad(i)
    IN  enc[(n + 2) \div 3]

\* base64.StdEncoding.EncodeToString: three bytes give four characters, the
\* last group is padded with "="
base64_EncodeToString(src) ==
    LET n == Len(src)
        Quad(i) ==
            LET b1 == src[3 * i - 2]
                b2 == IF 3 * i - 1 <= n THEN src[3 * i - 1] ELSE 0
                b3 == IF 3 * i <= n THEN src[3 * i] ELSE 0
            IN  B64Char(b1 \div 4) \o B64Char((b1 % 4) * 16 + b2 \div 16)
                  \o (IF 3 * i - 1 <= n THEN B64Char((b2 % 16) * 4 + b3 \div 64) ELSE "=")
                  \o (IF 3 * i <= n THEN B64Char(b3 % 64) ELSE "=")
        enc[i \in 0..((n + 2) \div 3)] == IF i = 0 THEN "" ELSE enc[i - 1] \o Quad(i)
    IN  enc[(n + 2) \div 3]

\* a GenerateChart without "if err != nil"
ReturnChart_IgnoreError(img, err) ==
    [str |-> base64_EncodeToString(img), err |-> NoErr]

\* GenerateChart after the renderer returned (img, err)
ReturnChart(img, err) ==
    IF err # NoErr
    THEN [str |-> "", err |-> "failed to generate chart: " \o err]
    ELSE [str |-> base64_EncodeToString(img), err |-> NoErr]

-----------------------------------------------------------------------------
(* requests *)

\* a *Planet
Planet(rashi, retro, combust, upagraha, display) ==
    [Rashi |-> rashi, IsRetrograde |-> retro, IsCombust |-> combust,
     IsUpagraha |-> upagraha, Display |-> display]

RashiNames ==
    {"aries", "taurus", "gemini", "cancer", "leo", "virgo", "libra", "scorpio",
     "sagittarius", "capricorn", "aquarius", "pisces"}

ChartTypes == {ChartTypeNorth, ChartTypeSouth, ChartTypeEast, ChartTypeWest, "", "North"}

PlanetNames == {"sun", "moon", "lagna"}
PlanetRashis == {"aries", "Taurus", "xyz"}

\* entries each name can have in a map of plain entries: any sign, no flag,
\* or a nil entry
PlainPlanets ==
    [n \in PlanetNames |->
        {Planet(r, FALSE, FALSE, FALSE, "") : r \in PlanetRashis} \cup {Nil}]

\* entries each name can have in a map of flagged entries
FlaggedPlanets ==
    [sun |-> {Planet("aries", FALSE, FALSE, FALSE, ""),
              Planet("aries", FALSE, TRUE, FALSE, ""),
              Planet("aries", TRUE, TRUE, FALSE, ""),
              Planet("Taurus", FALSE, FALSE, FALSE, ""),
              Planet("Taurus", TRUE, TRUE, FALSE, ""),
              Planet("xyz", TRUE, TRUE, FALSE, "")},
     moon |-> {Planet("aries", FALSE, FALSE, FALSE, ""),
               Planet("Taurus", FALSE, FALSE, TRUE, ""),
               Planet("aries", TRUE, TRUE, TRUE, "HL"),
               Planet("Taurus", TRUE, TRUE, FALSE, "HL")},
     lagna |-> {Planet("aries", FALSE, FALSE, FALSE, ""),
                Planet("aries", TRUE, FALSE, FALSE, ""),
                Planet("aries", FALSE, FALSE, FALSE, "HL")}]

\* the maps of at most MaxPlanets names, each name n to an entry of V[n]
PlanetMaps(V) ==
    UNION {{f \in [S -> UNION {V[n] : n \in S}] : \A n \in S : f[n] \in V[n]} :
              S \in {T \in SUBSET PlanetNames : Cardinality(T) <= MaxPlanets}}

\* every lagna sign, an unknown sign, and no lagna
AllLagnas ==
    {Planet(r, FALSE, FALSE, FALSE, "") : r \in RashiNames \cup {"xyz"}} \cup {Nil}

FewLagnas ==
    {Nil,
     Planet("aries", FALSE, FALSE, FALSE, ""),
     Planet("aries", FALSE, TRUE, FALSE, "Lg"),
     Planet("Taurus", TRUE, TRUE, FALSE, ""),
     Planet("Taurus", FALSE, FALSE, FALSE, "HL"),
     Planet("xyz", TRUE, TRUE, FALSE, "Lg")}

\* the lagnas of the requests with several plain planets: none, the first
\* sign, a later sign, an unknown sign
PlainLagnas ==
    {Planet(r, FALSE, FALSE, FALSE, "") : r \in {"aries", "leo", "xyz"}} \cup {Nil}

\* the lagnas of the requests with a centre text
CenterLagnas == {Nil, Planet("aries", FALSE, FALSE, FALSE, "")}

\* maps whose one key is not in lower case
MixedCaseMaps ==
    {[n \in {"Mars"} |-> p] :
        p \in {Planet("aries", FALSE, FALSE, FALSE, ""),
               Planet("aries", TRUE, TRUE, FALSE, ""),
               Planet("Taurus", FALSE, TRUE, FALSE, "Kuja")}}

CenterTexts == {"", "\n", "Om\n\nJai"}

ChartInput(t, planets, lagna, centerText) ==
    [ChartType |-> t, Planets |-> planets, Lagna |-> lagna, CenterText |-> centerText]

\* every chart type and lagna with at most one plain planet; every chart
\* type with plain planets; both renderers with few lagnas and flagged
\* planets; both renderers with a centre text and at most one plain planet;
\* both renderers with a planet name in mixed case
Inputs ==
    {ChartInput(t, ps, l, "") :
        t \in ChartTypes,
        ps \in {m \in PlanetMaps(PlainPlanets) : Cardinality(DOMAIN m) <= 1},
        l \in AllLagnas}
      \cup {ChartInput(t, ps, l, "") :
        t \in ChartTypes, ps \in PlanetMaps(PlainPlanets), l \in PlainLagnas}
      \cup {ChartInput(t, ps, l, "") :
        t \in {ChartTypeNorth, ChartTypeSouth}, ps \in PlanetMaps(FlaggedPlanets), l \in FewLagnas}
      \cup {ChartInput(t, ps, l, ct) :
        t \in {ChartTypeNorth, ChartTypeSouth},
        ps \in {m \in PlanetMaps(PlainPlanets) : Cardinality(DOMAIN m) <= 1},
        l \in CenterLagnas, ct \in CenterTexts}
      \cup {ChartInput(t, ps, l, "") :
        t \in {ChartTypeNorth, ChartTypeSouth}, ps \in MixedCaseMaps, l \in CenterLagnas}

\* the requests that are also rendered with font files that do not load and
\* with an encoder that fails
FaultInputs ==
    {ChartInput(t, ps, Planet("aries", FALSE, FALSE, FALSE, ""), "Om\n\nJai") :
        t \in {ChartTypeNorth, ChartTypeSouth},
        ps \in {m \in PlanetMaps(PlainPlanets) :
                   m = <<>> \/ (DOMAIN m = {"sun"} /\ m["sun"] # Nil)}}

-----------------------------------------------------------------------------
(* the state machine of one call of GenerateChart *)

EmptyCell == [rashiNum |-> 0, rashiStr |-> "", regular |-> <<>>, special |-> <<>>,
              who |-> <<>>, done |-> FALSE]

NoResult == [str |-> "", err |-> NoErr]

Init ==
    /\ input \in Inputs
    /\ embedded \in (IF input \in FaultInputs THEN [regular : FontData, bold : FontData]
                     ELSE {[regular |-> "ok", bold |-> "ok"]})
    /\ encoder \in (IF input \in FaultInputs THEN {"ok", "fails"} ELSE {"ok"})
    /\ pc = "GenerateChart"
    /\ slot = 0
    /\ lagnaRashiNum = 0
    /\ dc = NewContext
    /\ draws = <<>>
    /\ cells = [k \in 1..12 |-> EmptyCell]
    /\ result = NoResult

\* a GenerateChart whose switch falls through to the north renderer
GenerateChart_Fallthrough ==
    /\ pc = "GenerateChart"
    /\ IF input.ChartType = ""
       THEN /\ pc' = "done"
            /\ result' = [str |-> "", err |-> "chart_type is required"]
       ELSE IF input.ChartType = ChartTypeSouth
       THEN /\ pc' = "SouthFrame"
            /\ UNCHANGED result
       ELSE /\ pc' = "NorthFrame"
            /\ UNCHANGED result
    /\ UNCHANGED <<input, embedded, encoder, slot, lagnaRashiNum, dc, draws, cells>>

\* GenerateChart up to the call of a renderer, or its error return
GenerateChart ==
    /\ pc = "GenerateChart"
    /\ IF input.ChartType = ""
       THEN /\ pc' = "done"
            /\ result' = [str |-> "", err |-> "chart_type is required"]
       ELSE IF input.ChartType = ChartTypeSouth
       THEN /\ pc' = "SouthFrame"
            /\ UNCHANGED result
       ELSE IF input.ChartType = ChartTypeNorth
       THEN /\ pc' = "NorthFrame"
            /\ UNCHANGED result
       ELSE /\ pc' = "done"
            /\ result' = [str |-> "", err |-> "unsupported chart type: " \o input.ChartType]
    /\ UNCHANGED <<input, embedded, encoder, slot, lagnaRashiNum, dc, draws, cells>>

\* GenerateSouthChart up to the house loop
SouthFrame ==
    /\ pc = "SouthFrame"
    /\ draws' = draws \o SouthFrameDraws
    /\ lagnaRashiNum' = ResolveLagnaRashi(input)
    /\ dc' = loadMatangiRegular(SetRGB(SetLineWidth(NewContext, 1), Black), 16)
    /\ slot' = 1
    /\ pc' = "SouthHouse"
    /\ UNCHANGED <<input, embedded, encoder, cells, result>>

\* one iteration of the house loop; a nil entry of input.Planets panics
SouthHouse ==
    /\ pc = "SouthHouse"
    /\ IF HasNilPlanet(input)
       THEN /\ pc' = "panic"
            /\ draws' = draws \o SouthNumberDraws(input, dc, lagnaRashiNum, slot)
            /\ UNCHANGED <<slot, dc, cells>>
       ELSE \E occ \in {SouthOccupants(input, lagnaRashiNum, slot, order) :
                             order \in Orders(DOMAIN input.Planets)} :
            \E body \in {SouthHouseBody(input, dc, lagnaRashiNum, slot, occ)} :
                /\ draws' = draws \o body.draws
                /\ dc' = body.dc
                /\ cells' = [cells EXCEPT ![slot] = body.cell]
                /\ slot' = slot + 1
                /\ pc' = IF slot = 12 THEN "SouthCenter" ELSE "SouthHouse"
    /\ UNCHANGED <<input, embedded, encoder, lagnaRashiNum, result>>

\* the centre text of GenerateSouthChart
SouthCenter ==
    /\ pc = "SouthCenter"
    /\ IF input.CenterText # ""
       THEN \E d \in {SetRGB(loadMatangiRegular(dc, 18), Black)} :
                /\ dc' = d
                /\ draws' = draws \o SouthCenterDraws(d, input.CenterText)
       ELSE UNCHANGED <<dc, draws>>
    /\ pc' = "Encode"
    /\ UNCHANGED <<input, embedded, encoder, slot, lagnaRashiNum, cells, result>>

\* GenerateNorthChart: the two rotated squares and the splitting lines
NorthFrame ==
    /\ pc = "NorthFrame"
    /\ draws' = draws \o NorthFrameDraws
    /\ dc' = SetLineWidth(SetRGB(NewContext, Black), 2)
    /\ pc' = "NorthLagnaNumber"
    /\ UNCHANGED <<input, embedded, encoder, slot, lagnaRashiNum, cells, result>>

\* "Step 5a": lagnaRashiNum and the lagna rashi number at (400, 300)
NorthLagnaNumber ==
    /\ pc = "NorthLagnaNumber"
    /\ lagnaRashiNum' = ResolveLagnaRashi(input)
    /\ \E d \in {loadMatangiRegular(SetRGB(dc, Black), 20)} :
       \E n \in {NorthLagnaNumberDraw(d, ResolveLagnaRashi(input))} :
           /\ dc' = d
           /\ draws' = Append(draws, n)
           /\ cells' = [cells EXCEPT ![1].rashiStr = n.s]
    /\ pc' = "NorthRashiNumbers"
    /\ UNCHANGED <<input, embedded, encoder, slot, result>>

\* the rashi numbers of positions 2..12, then the font of the planet labels
NorthRashiNumbers ==
    /\ pc = "NorthRashiNumbers"
    /\ \E d \in {loadMatangiRegular(SetRGB(dc, Black), 20)} :
       \E ns \in {NorthNumberDraws(d, lagnaRashiNum)} :
           /\ draws' = draws \o ns
           /\ cells' = [k \in 1..12 |->
                          IF k = 1 THEN cells[k] ELSE [cells[k] EXCEPT !.rashiStr = ns[k - 1].s]]
           /\ dc' = loadMatangiBold(d, 18)
    /\ slot' = 1
    /\ pc' = "NorthPosition1"
    /\ UNCHANGED <<input, embedded, encoder, lagnaRashiNum, result>>

\* the planets of position 1; a nil entry of input.Planets panics
NorthPosition1 ==
    /\ pc = "NorthPosition1"
    /\ IF HasNilPlanet(input)
       THEN /\ pc' = "panic"
            /\ UNCHANGED <<slot, dc, draws, cells>>
       ELSE \E occ \in {NorthOccupants(input, lagnaRashiNum, 1, order) :
                             order \in Orders(DOMAIN input.Planets)} :
            \E body \in {NorthPositionBody(input, dc, lagnaRashiNum, 1, occ)} :
                /\ draws' = draws \o body.draws
                /\ dc' = body.dc
                /\ cells' = [cells EXCEPT ![1] = body.cell @@ @]
                /\ slot' = 2
                /\ pc' = "NorthPosition"
    /\ UNCHANGED <<input, embedded, encoder, lagnaRashiNum, result>>

\* one iteration of the loop over positions 2..12
NorthPosition ==
    /\ pc = "NorthPosition"
    /\ \E occ \in {NorthOccupants(input, lagnaRashiNum, slot, order) :
                        order \in Orders(DOMAIN input.Planets)} :
       \E body \in {NorthPositionBody(input, dc, lagnaRashiNum, slot, occ)} :
            /\ draws' = draws \o body.draws
            /\ dc' = body.dc
            /\ cells' = [cells EXCEPT ![slot] = body.cell @@ @]
    /\ slot' = slot + 1
    /\ pc' = IF slot = 12 THEN "Encode" ELSE "NorthPosition"
    /\ UNCHANGED <<input, embedded, encoder, lagnaRashiNum, result>>

\* the renderer's "return encodePNG(dc.Image())" and the rest of GenerateChart
Encode ==
    /\ pc = "Encode"
    /\ \E out \in {encodePNG(draws)} : result' = ReturnChart(out.bytes, out.err)
    /\ pc' = "done"
    /\ UNCHANGED <<input, embedded, encoder, slot, lagnaRashiNum, dc, draws, cells>>

Next ==
    \/ GenerateChart
    \/ SouthFrame
    \/ SouthHouse
    \/ SouthCenter
    \/ NorthFrame
    \/ NorthLagnaNumber
    \/ NorthRashiNumbers
    \/ NorthPosition1
    \/ NorthPosition
    \/ Encode

Spec == Init /\ [][Next]_vars

-----------------------------------------------------------------------------
(* vocabulary of the properties *)

Rendering == input.ChartType \in {ChartTypeNorth, ChartTypeSouth}

\* png.Encode succeeds on the image of this call
EncoderWorks == encoder = "ok"

AllCellsDone == \A k \in 1..12 : cells[k].done

Range(s) == {s[i] : i \in DOMAIN s}

\* the sign number the request's ascendant entry names; 0 if the request has
\* no ascendant entry or the entry names no sign
AscendantSign == IF input.Lagna # Nil THEN RashiToNumber(input.Lagna.Rashi) ELSE 0

\* the planet names recorded for cell k
Names(k) == {cells[k].who[i] : i \in DOMAIN cells[k].who}

\* in how many places of the twelve cells' records the planet name n stands
LabelCount(n) ==
    LET total[k \in 0..12] ==
            IF k = 0 THEN 0
            ELSE total[k - 1]
                   + Cardinality({i \in DOMAIN cells[k].who : cells[k].who[i] = n})
    IN  total[12]

\* how many of cell k's planets carry a special / a regular label
SpecialCount(k) ==
    Cardinality({i \in DOMAIN cells[k].who :
        IsSpecialLagnaAbbrev(
            PlanetLabel(cells[k].who[i], input.Planets[cells[k].who[i]]), input)})

RegularCount(k) == Len(cells[k].who) - SpecialCount(k)

\* byte order of names made of letters
Alphabet == "ABCDEFGHIJKLMNOPQRSTUVWXYZabcdefghijklmnopqrstuvwxyz"

Rank(c) == CHOOSE i \in 1..Len(Alphabet) : SubSeq(Alphabet, i, i) = c

StrLess(a, b) ==
    \E i \in 1..(Len(a) + 1) :
        /\ i <= Len(b)
        /\ SubSeq(a, 1, i - 1) = SubSeq(b, 1, i - 1)
        /\ \/ i = Len(a) + 1
           \/ Rank(SubSeq(a, i, i)) < Rank(SubSeq(b, i, i))

\* the request of the plain scenario: ascendant Aries, Sun in Aries, Moon in Taurus
IsScenario ==
    /\ input.Lagna = Planet("aries", FALSE, FALSE, FALSE, "")
    /\ DOMAIN input.Planets = {"sun", "moon"}
    /\ input.Planets["sun"] = Planet("aries", FALSE, FALSE, FALSE, "")
    /\ input.Planets["moon"] = Planet("Taurus", FALSE, FALSE, FALSE, "")

\* the step the renderer is about to take has the same effect for the request
\* `twin` as for the request being rendered: the same ascendant sign, and in
\* every visiting order of the planets the same draw calls, context and cell
\* record
SameStep(twin) ==
    LET Lt == ResolveLagnaRashi(twin)
    IN  /\ pc \in {"SouthFrame", "NorthLagnaNumber"} => ResolveLagnaRashi(input) = Lt
        /\ pc \in {"SouthHouse", "SouthCenter", "NorthRashiNumbers", "NorthPosition1",
                   "NorthPosition", "Encode", "panic"} => lagnaRashiNum = Lt
        /\ (pc = "SouthHouse" /\ ~HasNilPlanet(input)) =>
               \A occ \in {<<SouthOccupants(twin, Lt, slot, order),
                              SouthOccupants(input, lagnaRashiNum, slot, order)>> :
                                order \in Orders(DOMAIN input.Planets)} :
                   SouthHouseBody(twin, dc, Lt, slot, occ[1])
                     = SouthHouseBody(input, dc, lagnaRashiNum, slot, occ[2])
        /\ (pc \in {"NorthPosition1", "NorthPosition"} /\ ~HasNilPlanet(input)) =>
               \A occ \in {<<NorthOccupants(twin, Lt, slot, order),
                              NorthOccupants(input, lagnaRashiNum, slot, order)>> :
                                order \in Orders(DOMAIN input.Planets)} :
                   NorthPositionBody(twin, dc, Lt, slot, occ[1])
                     = NorthPositionBody(input, dc, lagnaRashiNum, slot, occ[2])

-----------------------------------------------------------------------------
(* properties *)

\* C1: in the north style, when the ascendant names the sign A, the sign
\* resolved for slot N is ((A - 1 + N - 1) mod 12) + 1; slot 1 resolves to A,
\* and for Leo (5) slot 2 resolves to 6 and slot 12 to 4
C1_RotationLaw ==
    (input.ChartType = ChartTypeNorth /\ AscendantSign \in 1..12) =>
        /\ \A N \in 1..12 :
               cells[N].done => cells[N].rashiNum = ((AscendantSign - 1 + N - 1) % 12) + 1
        /\ cells[1].done => cells[1].rashiNum = AscendantSign
        /\ (AscendantSign = 5 /\ cells[2].done) => cells[2].rashiNum = 6
        /\ (AscendantSign = 5 /\ cells[12].done) => cells[12].rashiNum = 4

C1_Witness ==
    /\ input.ChartType = ChartTypeNorth
    /\ AscendantSign = 5
    /\ AllCellsDone
    /\ cells[2].rashiNum = 6
    /\ cells[12].rashiNum = 4

\* C2: in the north style, whatever the ascendant (a sign, an unknown name or
\* none), the signs of the twelve slots are in 1..12 and pairwise different
C2_NorthPermutation ==
    (input.ChartType = ChartTypeNorth /\ AllCellsDone) =>
        /\ \A k \in 1..12 : cells[k].rashiNum \in 1..12
        /\ \A j, k \in 1..12 : cells[j].rashiNum = cells[k].rashiNum => j = k

C2_Witness ==
    /\ input.ChartType = ChartTypeNorth
    /\ input.Lagna = Nil
    /\ AllCellsDone
    /\ {cells[k].rashiNum : k \in 1..12} = 1..12

C4_OneLabelPerPlanet ==
    (Rendering /\ AllCellsDone) =>
        /\ \A n \in DOMAIN input.Planets :
               LET s == RashiToNumber(input.Planets[n].Rashi)
                   label == PlanetLabel(n, input.Planets[n])
               IN  s \in 1..12 =>
                       /\ LabelCount(n) = 1
                       /\ \A k \in 1..12 : n \in Names(k) => cells[k].rashiNum = s
                       /\ \E k \in 1..12 :
                              /\ cells[k].rashiNum = s
                              /\ \/ \E i \in DOMAIN cells[k].regular : cells[k].regular[i] = label
                                 \/ \E i \in DOMAIN cells[k].special : cells[k].special[i] = label
        /\ \A k \in 1..12 :
               Len(cells[k].regular) + Len(cells[k].special)
                 = Len(cells[k].who)
                     + (IF input.Lagna # Nil /\ cells[k].rashiNum = lagnaRashiNum THEN 1 ELSE 0)

C4_Witness ==
    /\ input.ChartType = ChartTypeNorth
    /\ AscendantSign = 5
    /\ AllCellsDone
    /\ DOMAIN input.Planets = {"sun", "moon"}
    /\ cells[10].who = <<"sun">>
    /\ cells[10].regular = <<"Su">>
    /\ cells[9].who = <<"moon">>

\* C5: a supplied ascendant puts its label in the regular group of the slot of
\* the ascendant's sign (slot 1 in the north style, the slot of that number in
\* the south style), as the first entry, and in no other slot and no special
\* group; ascendant Aries, Sun in Aries, Moon in Taurus gives slot 1 regular
\* <<Asc, Su>> and slot 2 regular <<Mo>>
C5_LagnaFirstRegular ==
    (Rendering /\ AllCellsDone /\ input.Lagna # Nil) =>
        LET A == IF AscendantSign = 0 THEN 1 ELSE AscendantSign
            home == IF input.ChartType = ChartTypeNorth THEN 1 ELSE A
        IN  /\ cells[home].rashiNum = A
            /\ Len(cells[home].regular) >= 1
            /\ cells[home].regular[1] = LagnaLabel(input)
            /\ \A k \in 1..12 :
                   /\ Len(cells[k].regular) = RegularCount(k) + (IF k = home THEN 1 ELSE 0)
                   /\ Len(cells[k].special) = SpecialCount(k)
            /\ IsScenario =>
                   /\ cells[1].regular = <<"Asc", "Su">>
                   /\ cells[2].regular = <<"Mo">>

C5_Witness ==
    /\ input.ChartType = ChartTypeSouth
    /\ IsScenario
    /\ AllCellsDone
    /\ cells[1].regular = <<"Asc", "Su">>
    /\ cells[2].regular = <<"Mo">>

\* C6: a render does not depend on the order in which the planets are visited:
\* every finished cell has the groups that any visiting order gives it
C6_Deterministic ==
    Rendering =>
        \A k \in 1..12 :
            cells[k].done =>
                \A order \in Orders(DOMAIN input.Planets) :
                    LET occ == IF input.ChartType = ChartTypeNorth
                               THEN NorthOccupants(input, lagnaRashiNum, k, order)
                               ELSE SouthOccupants(input, lagnaRashiNum, k, order)
                    IN  /\ occ.regular = cells[k].regular
                        /\ occ.special = cells[k].special

\* C7: within a slot the labels are appended in ascending order of planet name
C7_SortedByName ==
    \A k \in 1..12 :
        \A i, j \in DOMAIN cells[k].who :
            i < j => StrLess(cells[k].who[i], cells[k].who[j])

\* C8: a chart type other than "north" and "south" ends the call with an empty
\* string and an error; no renderer runs and nothing is drawn
C8_UnsupportedType ==
    ~Rendering =>
        /\ pc \in {"GenerateChart", "done"}
        /\ draws = <<>>
        /\ \A k \in 1..12 : cells[k] = EmptyCell
        /\ pc = "done" => (result.str = "" /\ result.err # NoErr)

C8_Witness ==
    /\ input.ChartType = ChartTypeEast
    /\ pc = "done"
    /\ result = [str |-> "", err |-> "unsupported chart type: east"]
    /\ draws = <<>>

\* C9: in both styles, an ascendant entry with an unrecognised sign name is
\* rendered step by step as the same request with the ascendant sign set to
\* Aries (same slot signs, groups and draw calls), and no error is returned
C9_UnknownAscendantIsAries ==
    (Rendering /\ input.Lagna # Nil /\ AscendantSign = 0) =>
        /\ SameStep([input EXCEPT !.Lagna.Rashi = "aries"])
        /\ (pc = "done" /\ EncoderWorks) => result.err = NoErr

C9_Witness ==
    /\ input.ChartType = ChartTypeSouth
    /\ input.Lagna = Planet("xyz", TRUE, TRUE, FALSE, "Lg")
    /\ pc = "done"
    /\ lagnaRashiNum = 1
    /\ cells[1].regular = <<"Lg">>
    /\ result.err = NoErr

\* C10, as stated: a request without an ascendant entry is rendered step by
\* step as the same request with an ascendant entry in Aries
C10_OmittedEqualsAries ==
    (Rendering /\ input.Lagna = Nil) =>
        SameStep([input EXCEPT !.Lagna = Planet("aries", FALSE, FALSE, FALSE, "")])

\* C10, amended: a request without an ascendant entry gets the slot signs and
\* the planet labels of the same request with an ascendant entry in Aries, but
\* no ascendant label and, in the south style, no lagna indicator: the Aries
\* request has its ascendant label ahead of the regular group of the Aries
\* slot and the indicator in house 1, and nothing else differs
C10_OmittedAscendant ==
    (Rendering /\ input.Lagna = Nil) =>
        LET twin == [input EXCEPT !.Lagna = Planet("aries", FALSE, FALSE, FALSE, "")]
            Lt == ResolveLagnaRashi(twin)
            asc == IF slot = 1 THEN <<"Asc">> ELSE <<>>
        IN  /\ pc \in {"SouthFrame", "NorthLagnaNumber"} => ResolveLagnaRashi(input) = Lt
            /\ pc \in {"SouthHouse", "SouthCenter", "NorthRashiNumbers", "NorthPosition1",
                       "NorthPosition", "Encode", "panic"} => lagnaRashiNum = Lt
            /\ \A k \in 1..12 :
                   cells[k].done =>
                       Len(cells[k].regular) + Len(cells[k].special) = Len(cells[k].who)
            /\ (input.ChartType = ChartTypeSouth /\ pc # "GenerateChart") =>
                   \A i \in DOMAIN draws : draws[i].op = "line" => draws[i] \in Range(SouthFrameDraws)
            /\ (pc = "SouthHouse" /\ ~HasNilPlanet(input)) =>
                   \A order \in Orders(DOMAIN input.Planets) :
                       LET mine == SouthOccupants(input, lagnaRashiNum, slot, order)
                           theirs == SouthOccupants(twin, Lt, slot, order)
                       IN  /\ theirs.regular = asc \o mine.regular
                           /\ theirs.special = mine.special
                           /\ theirs.who = mine.who
                           /\ SouthNumberDraws(twin, dc, Lt, slot)
                                = SouthNumberDraws(input, dc, lagnaRashiNum, slot)
                                    \o (IF slot = 1
                                        THEN LagnaIndicator(SetRGB(dc, Black), houseRects(1))
                                        ELSE <<>>)
            /\ (pc \in {"NorthPosition1", "NorthPosition"} /\ ~HasNilPlanet(input)) =>
                   \A order \in Orders(DOMAIN input.Planets) :
                       LET mine == NorthOccupants(input, lagnaRashiNum, slot, order)
                           theirs == NorthOccupants(twin, Lt, slot, order)
                       IN  /\ theirs.regular = asc \o mine.regular
                           /\ theirs.special = mine.special
                           /\ theirs.who = mine.who
                           /\ getRashiForPosition(Lt, slot)
                                = getRashiForPosition(lagnaRashiNum, slot)

C10_Witness ==
    /\ input.ChartType = ChartTypeSouth
    /\ input.Lagna = Nil
    /\ pc = "done"
    /\ lagnaRashiNum = 1
    /\ "sun" \in DOMAIN input.Planets
    /\ cells[1].regular = <<"Su">>
    /\ cells[1].who = <<"sun">>

\* the sign name is one of the twelve, in any case of letters
KnownSign(rashi) == ToLower(rashi) \in RashiNames

\* C11, as stated: a planet whose sign name is unknown is treated as being in
\* Aries: the render succeeds and the planet has its label in the slot of sign 1
C11_UnknownSignIsAries ==
    (Rendering /\ pc = "done" /\ EncoderWorks) =>
        /\ result.err = NoErr
        /\ \A n \in DOMAIN input.Planets :
               ~KnownSign(input.Planets[n].Rashi) =>
                   \E k \in 1..12 : cells[k].rashiNum = 1 /\ n \in Names(k)

\* C11, amended: a planet whose sign name is unknown is not rejected, the
\* render succeeds, and the planet has no label in any slot: every slot holds
\* the labels of the planets of its sign and of the ascendant, and no other
C11_UnknownSignDropped ==
    (Rendering /\ pc = "done" /\ EncoderWorks) =>
        /\ result.err = NoErr
        /\ result.str # ""
        /\ \A n \in DOMAIN input.Planets :
               ~KnownSign(input.Planets[n].Rashi) => LabelCount(n) = 0
        /\ \A k \in 1..12 :
               /\ \A n \in Names(k) : KnownSign(input.Planets[n].Rashi)
               /\ Len(cells[k].regular) + Len(cells[k].special)
                    = Len(cells[k].who)
                        + (IF input.Lagna # Nil /\ cells[k].rashiNum = lagnaRashiNum
                           THEN 1 ELSE 0)

C11_Witness ==
    /\ input.ChartType = ChartTypeSouth
    /\ pc = "done"
    /\ input.Lagna = Nil
    /\ DOMAIN input.Planets = {"sun", "moon"}
    /\ input.Planets["sun"].Rashi = "xyz"
    /\ input.Planets["moon"].Rashi = "aries"
    /\ cells[1].regular = <<"Mo">>
    /\ \A k \in 2..12 : cells[k].regular = <<>> /\ cells[k].special = <<>>
    /\ result.err = NoErr


\* the label a planet entry is to have: base label, "R" if retrograde, "C" if
\* combust
ExpectedLabel(n) ==
    LET p == input.Planets[n]
    IN  GetPlanetDisplayName(n, p)
          \o (IF p.IsRetrograde THEN "R" ELSE "")
          \o (IF p.IsCombust THEN "C" ELSE "")

\* the expected labels of cell k's planets whose label is special (sp = TRUE)
\* or regular (sp = FALSE), in the order the planets were visited
GroupLabels(k, sp) ==
    LET who == cells[k].who
        idx == SelectSeq([i \in 1..Len(who) |-> i],
                         LAMBDA i : IsSpecialLagnaAbbrev(ExpectedLabel(who[i]), input) = sp)
    IN  [j \in 1..Len(idx) |-> ExpectedLabel(who[idx[j]])]

\* the last n entries of a sequence
Tail_n(s, n) == SubSeq(s, Len(s) - n + 1, Len(s))

\* C12: in both groups the label of a placed planet is its base label, then
\* "R" iff retrograde, then "C" iff combust; retrograde and combust gives a
\* label ending in "RC"; the group is chosen by the suffixed label
C12_SuffixLaw ==
    \A k \in 1..12 :
        cells[k].done =>
            /\ cells[k].special = GroupLabels(k, TRUE)
            /\ \E regular \in {GroupLabels(k, FALSE)} :
                   /\ Len(cells[k].regular) >= Len(regular)
                   /\ Tail_n(cells[k].regular, Len(regular)) = regular
            /\ \A i \in DOMAIN cells[k].who :
                   LET p == input.Planets[cells[k].who[i]]
                       label == ExpectedLabel(cells[k].who[i])
                   IN  (p.IsRetrograde /\ p.IsCombust) =>
                           /\ Len(label) >= 2
                           /\ SubSeq(label, Len(label) - 1, Len(label)) = "RC"
                           /\ \/ label \in Range(cells[k].regular)
                              \/ label \in Range(cells[k].special)

C12_Witness ==
    /\ input.ChartType = ChartTypeSouth
    /\ input.Lagna = Nil
    /\ AllCellsDone
    /\ cells[1].regular = <<"SuRC">>
    /\ cells[1].special = <<"HLRC">>


\* the slot of the ascendant: slot 1 in the north style, the slot of the
\* ascendant's sign (Aries when the sign is unknown) in the south style
HomeSlot ==
    IF input.ChartType = ChartTypeNorth THEN 1
    ELSE IF AscendantSign = 0 THEN 1 ELSE AscendantSign

\* C13: the label of the ascendant entry is its custom display string if set,
\* else "Asc", with no "R" and no "C" appended, whatever flags the entry has
C13_LagnaNeverSuffixed ==
    (Rendering /\ AllCellsDone /\ input.Lagna # Nil) =>
        LET name == IF input.Lagna.Display # "" THEN input.Lagna.Display ELSE "Asc"
        IN  /\ Len(cells[HomeSlot].regular) >= 1
            /\ cells[HomeSlot].regular[1] = name
            /\ \E i \in DOMAIN draws : IsText(draws[i]) /\ draws[i].s = name
            /\ \A i \in DOMAIN draws :
                   (draws[i].op = "text" /\ draws[i].ax2 = 2 /\ draws[i].ay2 = 1) =>
                       \/ draws[i].s = name
                       \/ \E k \in 1..12 : draws[i].s \in Range(GroupLabels(k, FALSE))

C13_Witness ==
    /\ input.ChartType = ChartTypeNorth
    /\ input.Lagna = Planet("Taurus", TRUE, TRUE, FALSE, "")
    /\ input.Planets = <<>>
    /\ AllCellsDone
    /\ cells[1].regular = <<"Asc">>


\* the labels whose base is the ascendant's abbreviation
AscLabels == {"Asc", "AscR", "AscC", "AscRC"}

\* C14: in one render at most one label with base "Asc" is drawn, and none
\* that carries an R or C suffix
C14_AtMostOneAsc ==
    /\ Cardinality({i \in DOMAIN draws : IsText(draws[i]) /\ draws[i].s \in AscLabels}) <= 1
    /\ \A i \in DOMAIN draws : IsText(draws[i]) => draws[i].s \notin AscLabels \ {"Asc"}


\* where the labels of cell k are stacked: the x of the regular and of the
\* special group, the y of the first row, the distance between rows
Stack(k) ==
    IF input.ChartType = ChartTypeNorth
    THEN [leftX |-> NorthAnchor(k).leftX, rightX |-> NorthAnchor(k).rightX,
          planetY |-> NorthAnchor(k).planetY, step |-> 20]
    ELSE LET rect == houseRects(k)
             centerX == (rect.MinX + rect.MaxX) \div 2
         IN  [leftX |-> centerX - 25, rightX |-> centerX + 25,
              planetY |-> rect.MinY + 25, step |-> 25]

\* a label draw call with text s at (x, y), anchored at ax2 / 2 horizontally
\* and at mid-height
LabelDrawn(s, x, y, ax2) ==
    \E j \in DOMAIN draws :
        /\ IsText(draws[j])
        /\ draws[j].s = s
        /\ draws[j].x = x
        /\ draws[j].y = y
        /\ draws[j].ax2 = ax2
        /\ draws[j].ay2 = 1

\* C15: in every slot regular[i] and special[i] are drawn on row i, at
\* anchor y + i * step (i from 0), each at its own index whether or not the
\* other group has an entry there
C15_PairingLaw ==
    Rendering =>
        \A k \in 1..12 :
            cells[k].done =>
                /\ \A i \in DOMAIN cells[k].regular :
                       LabelDrawn(cells[k].regular[i], Stack(k).leftX,
                                  Stack(k).planetY + (i - 1) * Stack(k).step, 2)
                /\ \A i \in DOMAIN cells[k].special :
                       LabelDrawn(cells[k].special[i], Stack(k).rightX,
                                  Stack(k).planetY + (i - 1) * Stack(k).step, 0)

C15_Witness ==
    /\ input.ChartType = ChartTypeNorth
    /\ AscendantSign = 1
    /\ AllCellsDone
    /\ Len(cells[1].regular) = 1
    /\ Len(cells[1].special) = 2
    /\ LabelDrawn(cells[1].regular[1], 360, 140, 2)
    /\ LabelDrawn(cells[1].special[1], 400, 140, 0)
    /\ LabelDrawn(cells[1].special[2], 400, 160, 0)


\* the draw calls of occupant labels: text anchored at mid-height
IsLabelDraw(c) == IsText(c) /\ c.ay2 = 1 /\ c.ax2 \in {0, 2}

\* a label draw call with text s at (x, y) in colour rgb
LabelDrawnIn(s, x, y, rgb) ==
    \E j \in DOMAIN draws :
        /\ IsLabelDraw(draws[j])
        /\ draws[j].s = s
        /\ draws[j].x = x
        /\ draws[j].y = y
        /\ draws[j].rgb = rgb

\* C16: a regular label containing "Asc" is drawn in saffron, a label of the
\* special group in yellow, every other label in black
C16_ColourRule ==
    Rendering =>
        /\ \A j \in DOMAIN draws :
               IsLabelDraw(draws[j]) =>
                   draws[j].rgb =
                       IF draws[j].ax2 = 0 THEN Yellow
                       ELSE IF Contains(draws[j].s, "Asc") THEN Saffron
                       ELSE Black
        /\ \A k \in 1..12 :
               cells[k].done =>
                   /\ \A i \in DOMAIN cells[k].regular :
                          LabelDrawnIn(cells[k].regular[i], Stack(k).leftX,
                                       Stack(k).planetY + (i - 1) * Stack(k).step,
                                       IF Contains(cells[k].regular[i], "Asc")
                                       THEN Saffron ELSE Black)
                   /\ \A i \in DOMAIN cells[k].special :
                          LabelDrawnIn(cells[k].special[i], Stack(k).rightX,
                                       Stack(k).planetY + (i - 1) * Stack(k).step, Yellow)

C16_Witness ==
    /\ input.ChartType = ChartTypeSouth
    /\ AllCellsDone
    /\ cells[1].special = <<"HLRC">>
    /\ Len(cells[1].regular) = 2
    /\ "AscR" \in Range(cells[1].regular)
    /\ \E j \in DOMAIN draws : draws[j].op = "text" /\ draws[j].s = "AscR" /\ draws[j].rgb = Saffron
    /\ \E j \in DOMAIN draws : draws[j].op = "text" /\ draws[j].s = "HLRC" /\ draws[j].rgb = Yellow
    /\ \E j \in DOMAIN draws : IsLabelDraw(draws[j]) /\ draws[j].rgb = Black


\* C17: after the labels of a slot the drawing colour is black again; every
\* sign number, every lagna-indicator line and every centre-text line is
\* drawn in black, whatever colour an earlier label had
C17_ColourReset ==
    Rendering =>
        /\ pc \in {"SouthHouse", "SouthCenter", "NorthPosition", "Encode", "done"} =>
               dc.rgb = Black
        /\ \A j \in DOMAIN draws :
               (draws[j].op \in {"text", "line", "centertext"} /\ ~IsLabelDraw(draws[j])) =>
                   draws[j].rgb = Black

C17_Witness ==
    /\ input.ChartType = ChartTypeSouth
    /\ pc = "done"
    /\ input.CenterText # ""
    /\ cells[1].regular = <<"Asc", "Su">>
    /\ dc.rgb = Black
    /\ \E i, j, k, l \in DOMAIN draws :
           /\ i < j /\ j < k /\ k < l
           /\ IsLabelDraw(draws[i]) /\ draws[i].rgb = Saffron
           /\ IsText(draws[j]) /\ draws[j].s = "2" /\ draws[j].rgb = Black
           /\ draws[k].op = "centertext" /\ draws[k].rgb = Black
           /\ draws[l].op = "centertext"
    /\ \E j \in DOMAIN draws : draws[j].op = "line" /\ draws[j].w = 2 /\ draws[j].rgb = Black


\* the centre-text draw calls issued so far, in order
CenterDrawn == SelectSeq(draws, LAMBDA c : c.op = "centertext")

\* the non-empty lines of the request's centre text, in order
CenterLines == SelectSeq(strings_Split(input.CenterText, "\n"), LAMBDA l : l # "")

B64Index == [c \in {B64Char(v) : v \in 0..63} |-> CHOOSE v \in 0..63 : B64Char(v) = c]

B64Val(c) == IF c \in DOMAIN B64Index THEN B64Index[c] ELSE -1

\* standard base64 decoding with padding; <<-1>> for a string that is not
\* standard base64
base64_DecodeString(str) ==
    LET q == Len(str) \div 4
        Ch(i, j) == SubSeq(str, 4 * (i - 1) + j, 4 * (i - 1) + j)
        Bytes(i) ==
            LET v1 == B64Val(Ch(i, 1))
                v2 == B64Val(Ch(i, 2))
                v3 == B64Val(Ch(i, 3))
                v4 == B64Val(Ch(i, 4))
            IN  IF Ch(i, 4) = "=" /\ Ch(i, 3) = "="
                THEN <<v1 * 4 + v2 \div 16>>
                ELSE IF Ch(i, 4) = "="
                THEN <<v1 * 4 + v2 \div 16, (v2 % 16) * 16 + v3 \div 4>>
                ELSE <<v1 * 4 + v2 \div 16, (v2 % 16) * 16 + v3 \div 4, (v3 % 4) * 64 + v4>>
        Valid(i) ==
            /\ B64Val(Ch(i, 1)) >= 0
            /\ B64Val(Ch(i, 2)) >= 0
            /\ B64Val(Ch(i, 3)) >= 0 \/ (i = q /\ Ch(i, 3) = "=" /\ Ch(i, 4) = "=")
            /\ B64Val(Ch(i, 4)) >= 0 \/ (i = q /\ Ch(i, 4) = "=")
        dec[i \in 0..q] == IF i = 0 THEN <<>> ELSE dec[i - 1] \o Bytes(i)
    IN  IF Len(str) % 4 = 0 /\ \A i \in 1..q : Valid(i) THEN dec[q] ELSE <<-1>>

\* C19: a north or south request whose planet entries are all non-nil ends,
\* when the encoder succeeds, with a nil error and a non-empty string that
\* decodes, as standard base64, to the bytes the renderer returned
C19_Base64OfImage ==
    (Rendering /\ ~HasNilPlanet(input) /\ EncoderWorks) =>
        /\ pc # "panic"
        /\ pc = "done" =>
               LET decoded == base64_DecodeString(result.str)
               IN  /\ result.err = NoErr
                   /\ result.str # ""
                   /\ decoded = encodePNG(draws).bytes
                   /\ SubSeq(decoded, 1, 8) = PNGSignature

C19_Witness ==
    /\ input.ChartType = ChartTypeNorth
    /\ input.Lagna # Nil
    /\ pc = "done"
    /\ Len(cells[1].who) = 2
    /\ result.err = NoErr
    /\ Len(result.str) % 4 = 0
    /\ SubSeq(result.str, Len(result.str), Len(result.str)) = "="
    /\ base64_DecodeString(result.str) = encodePNG(draws).bytes


\* the canonical abbreviation of the names the requests use, in any case of
\* letters; a name without an abbreviation has the empty one
Canonical(name) ==
    LET lower == ToLower(name)
    IN  CASE lower = "sun" -> "Su"
          [] lower = "moon" -> "Mo"
          [] lower = "mars" -> "Ma"
          [] lower = "lagna" -> "Asc"
          [] OTHER -> ""

\* the base label of an entry: its display string, else its abbreviation
BaseLabel(name, p) == IF p.Display # "" THEN p.Display ELSE Canonical(name)

\* the label of the planet entry n: base label and suffixes
FullLabel(n) ==
    BaseLabel(n, input.Planets[n])
      \o (IF input.Planets[n].IsRetrograde THEN "R" ELSE "")
      \o (IF input.Planets[n].IsCombust THEN "C" ELSE "")

\* how often the label l stands in the sequence s
Occurrences(s, l) == Cardinality({i \in DOMAIN s : s[i] = l})

\* C20: the base label of a planet, an upagraha or the ascendant is its
\* display string when that is not empty, else the abbreviation of its name
\* looked up without regard to case; R and C are appended to either alike
C20_BaseLabel ==
    Rendering =>
        \E home \in {HomeSlot} :
            \A k \in 1..12 :
                cells[k].done =>
                    \E lagnaHere \in {input.Lagna # Nil /\ k = home} :
                        \E planets \in {(IF lagnaHere THEN Tail(cells[k].regular)
                                                       ELSE cells[k].regular)
                                           \o cells[k].special},
                           labels \in {[i \in DOMAIN cells[k].who |-> FullLabel(cells[k].who[i])]} :
                            /\ lagnaHere =>
                                   cells[k].regular[1] = BaseLabel("lagna", input.Lagna)
                            /\ Len(planets) = Len(labels)
                            /\ \A i \in DOMAIN labels :
                                   Occurrences(planets, labels[i]) = Occurrences(labels, labels[i])

C20_Witness ==
    /\ input.ChartType = ChartTypeSouth
    /\ AllCellsDone
    /\ input.Lagna = Nil
    /\ DOMAIN input.Planets = {"Mars"}
    /\ input.Planets["Mars"] = Planet("Taurus", FALSE, TRUE, FALSE, "Kuja")
    /\ cells[2].regular = <<"KujaC">>



\* the twelve perimeter cells of a 4 x 4 grid as (column, row) from the top
\* left, walked clockwise from the top-left corner
Perimeter ==
    << <<0, 0>>, <<1, 0>>, <<2, 0>>, <<3, 0>>, <<3, 1>>, <<3, 2>>,
       <<3, 3>>, <<2, 3>>, <<1, 3>>, <<0, 3>>, <<0, 2>>, <<0, 1>> >>

\* the rectangle of the grid cell (column, row): 180 pixels wide and high,
\* the grid starting 40 pixels from the edges of the canvas
GridRect(cr) ==
    [MinX |-> 40 + 180 * cr[1], MinY |-> 40 + 180 * cr[2],
     MaxX |-> 40 + 180 * (cr[1] + 1), MaxY |-> 40 + 180 * (cr[2] + 1)]

\* the interiors of two rectangles meet
Overlap(r, q) ==
    /\ r.MinX < q.MaxX /\ q.MinX < r.MaxX
    /\ r.MinY < q.MaxY /\ q.MinY < r.MaxY

\* the number draw calls of the south render so far, by house: the text drawn
\* with its bottom-right corner as anchor
SouthNumbersDrawn == SelectSeq(draws, LAMBDA c : IsText(c) /\ c.ax2 = 2 /\ c.ay2 = 2)

\* C21: with canvas 800 and padding 40 the rectangles of the 12 slots are 12
\* distinct, pairwise non-overlapping cells of the 4 x 4 grid of 180-pixel
\* cells, none of the 4 centre cells, clockwise from slot 12 in the top-left
\* corner: top row 12, 1, 2, 3; right column 4, 5, 6; bottom row from the
\* right 6, 7, 8, 9; left column upward 10, 11; the south render draws the
\* number of each slot inside the slot's rectangle (the table is compared
\* where the renderer has built it and is about to draw slot 1)
C21_SouthLayout ==
    /\ (pc = "SouthHouse" /\ slot = 1) =>
           /\ size = 800 /\ padding = 40 /\ cellSize = 180
           /\ \A h \in 1..12 : houseRects(h) = GridRect(Perimeter[(h % 12) + 1])
           /\ \A h, g \in 1..12 :
                  h # g => (/\ houseRects(h) # houseRects(g)
                            /\ ~Overlap(houseRects(h), houseRects(g)))
           /\ \A h \in 1..12 : \A c, r \in 1..2 : houseRects(h) # GridRect(<<c, r>>)
           /\ <<houseRects(12), houseRects(1), houseRects(2), houseRects(3)>>
                = [c \in 1..4 |-> GridRect(<<c - 1, 0>>)]
           /\ <<houseRects(4), houseRects(5), houseRects(6)>>
                = [r \in 1..3 |-> GridRect(<<3, r>>)]
           /\ <<houseRects(6), houseRects(7), houseRects(8), houseRects(9)>>
                = [c \in 1..4 |-> GridRect(<<4 - c, 3>>)]
           /\ <<houseRects(10), houseRects(11)>> = [r \in 1..2 |-> GridRect(<<0, 3 - r>>)]
    /\ input.ChartType = ChartTypeSouth =>
           \E drawn \in {SouthNumbersDrawn} :
               \A h \in 1..12 :
                   cells[h].done =>
                       /\ Len(drawn) >= h
                       /\ drawn[h].s = Sprintf_d(h)
                       /\ drawn[h].x = GridRect(Perimeter[(h % 12) + 1]).MaxX - 10
                       /\ drawn[h].y = GridRect(Perimeter[(h % 12) + 1]).MaxY - 29

C21_Witness ==
    /\ input.ChartType = ChartTypeSouth
    /\ AllCellsDone
    /\ Len(SouthNumbersDrawn) = 12
    /\ SouthNumbersDrawn[12].s = "12"
    /\ SouthNumbersDrawn[12].x = 210 /\ SouthNumbersDrawn[12].y = 191
    /\ SouthNumbersDrawn[6].x = 750 /\ SouthNumbersDrawn[6].y = 731
    /\ SouthNumbersDrawn[10].x = 210 /\ SouthNumbersDrawn[10].y = 551
    /\ SouthNumbersDrawn[11].x = 210 /\ SouthNumbersDrawn[11].y = 371



\* the request inp with the upagraha flag of every entry, the ascendant's
\* included, set to b
SetUpagraha(inp, b) ==
    [inp EXCEPT
        !.Planets = [n \in DOMAIN inp.Planets |->
                        IF inp.Planets[n] # Nil
                        THEN [inp.Planets[n] EXCEPT !.IsUpagraha = b]
                        ELSE inp.Planets[n]],
        !.Lagna = IF inp.Lagna # Nil
                  THEN [inp.Lagna EXCEPT !.IsUpagraha = b]
                  ELSE inp.Lagna]

Face(f, sz) ==
    IF embedded[f] # "ok" THEN <<"basicfont.Face7x13", 13>>
    ELSE IF f = "regular" THEN <<"Matangi-Regular", sz>>
    ELSE <<"Matangi-Bold", sz>>

\* the face a text draw call is to be made with: the centre text in regular
\* 18, the occupant labels in bold 18 (north) or 22 (south), the sign numbers
\* in regular 20 (north) or 16 (south)
ExpectedFace(c) ==
    IF c.op = "centertext" THEN Face("regular", 18)
    ELSE IF IsLabelDraw(c)
    THEN Face("bold", IF input.ChartType = ChartTypeNorth THEN 18 ELSE 22)
    ELSE Face("regular", IF input.ChartType = ChartTypeNorth THEN 20 ELSE 16)

\* some embedded font file does not load
FontFailure == embedded.regular # "ok" \/ embedded.bold # "ok"

\* C23: a font file that does not parse or gives no face never aborts or
\* fails a render: after every font-load step the context has the font's face
\* or, when the file does not load, the built-in face; every text is drawn
\* with that face; the render goes through all 12 slots to the encoder; the
\* error of the loader is not in what the caller gets
C23_FontFallback ==
    (Rendering /\ ~HasNilPlanet(input)) =>
        /\ pc # "panic"
        /\ \A i \in DOMAIN draws :
               draws[i].op \in {"text", "centertext"} =>
                   draws[i].font = ExpectedFace(draws[i])
        /\ pc \in {"SouthHouse", "SouthCenter"} => dc.font = Face("regular", 16)
        /\ (pc = "Encode" /\ input.ChartType = ChartTypeSouth) =>
               dc.font = Face("regular", IF input.CenterText # "" THEN 18 ELSE 16)
        /\ pc = "NorthRashiNumbers" => dc.font = Face("regular", 20)
        /\ (pc \in {"NorthPosition1", "NorthPosition"}
              \/ (pc = "Encode" /\ input.ChartType = ChartTypeNorth)) =>
               dc.font = Face("bold", 18)
        /\ pc \in {"Encode", "done"} => AllCellsDone
        /\ pc = "done" =>
               /\ ~Contains(result.err, "opentype")
               /\ EncoderWorks => (result.err = NoErr /\ result.str # "")

C23_Witness ==
    /\ input.ChartType = ChartTypeSouth
    /\ embedded = [regular |-> "parseError", bold |-> "faceError"]
    /\ EncoderWorks
    /\ pc = "done"
    /\ AllCellsDone
    /\ result.err = NoErr
    /\ result.str # ""
    /\ cells[1].regular = <<"Asc", "Su">>
    /\ Len(CenterDrawn) = 2
    /\ \A i \in DOMAIN draws :
           draws[i].op \in {"text", "centertext"} => draws[i].font = <<"basicfont.Face7x13", 13>>
    /\ Cardinality({i \in DOMAIN draws : draws[i].op \in {"text", "centertext"}}) = 16



\* the strokes of width 2 issued so far: in the south style the frame is
\* stroked with width 1, so these are the lines of the lagna indicator
IndicatorDrawn == SelectSeq(draws, LAMBDA c : c.op = "line" /\ c.w = 2)

\* the indicator of the cell r: two parallel diagonals across its bottom-left
\* corner, from the bottom edge 15 pixels right of the corner up to the left
\* edge 15 pixels above it, the second one 3 pixels right of and above the first
IndicatorOf(r) ==
    << [x1 |-> r.MinX + 15, y1 |-> r.MaxY, x2 |-> r.MinX, y2 |-> r.MaxY - 15],
       [x1 |-> r.MinX + 18, y1 |-> r.MaxY - 3, x2 |-> r.MinX + 3, y2 |-> r.MaxY - 18] >>

\* C24: in the south style the lagna indicator is drawn once, in the cell of
\* the ascendant's sign (Aries when the sign is unknown), when the request
\* has an ascendant entry, and in no cell when it has none; it is drawn when
\* that cell is rendered, and the line width is 1 after every cell
C24_LagnaIndicator ==
    input.ChartType = ChartTypeSouth =>
        /\ input.Lagna = Nil => IndicatorDrawn = <<>>
        /\ (input.Lagna # Nil /\ ~HasNilPlanet(input)) =>
               IF cells[HomeSlot].done
               THEN [i \in 1..Len(IndicatorDrawn) |->
                        [x1 |-> IndicatorDrawn[i].x1, y1 |-> IndicatorDrawn[i].y1,
                         x2 |-> IndicatorDrawn[i].x2, y2 |-> IndicatorDrawn[i].y2]]
                      = IndicatorOf(GridRect(Perimeter[(HomeSlot % 12) + 1]))
               ELSE IndicatorDrawn = <<>>
        /\ Len(IndicatorDrawn) <= 2
        /\ \A i \in DOMAIN IndicatorDrawn : IndicatorDrawn[i].rgb = Black
        /\ pc \in {"SouthHouse", "SouthCenter", "Encode", "done", "panic"} => dc.lineWidth = 1

C24_Witness ==
    /\ input.ChartType = ChartTypeSouth
    /\ AscendantSign = 5
    /\ pc = "done"
    /\ Len(IndicatorDrawn) = 2
    /\ IndicatorDrawn[1].x1 = 595 /\ IndicatorDrawn[1].y1 = 580
    /\ IndicatorDrawn[1].x2 = 580 /\ IndicatorDrawn[1].y2 = 565
    /\ IndicatorDrawn[2].x1 = 598 /\ IndicatorDrawn[2].y1 = 577
    /\ IndicatorDrawn[2].x2 = 583 /\ IndicatorDrawn[2].y2 = 562
    /\ dc.lineWidth = 1



\* the anchor of slot k's labels, the horizontal offset d of the two groups
\* from it and the vertical step: in the north style (380, 140) for slot 1
\* and the planet position of the table for the others, offset 20, step 20;
\* in the south style the point 25 below the middle of the cell's top edge,
\* offset 25, step 25
LabelAnchor(k) ==
    IF input.ChartType = ChartTypeNorth
    THEN [x |-> IF k = 1 THEN 380 ELSE rashiPositions(k).planetX,
          y |-> IF k = 1 THEN 140 ELSE rashiPositions(k).planetY,
          d |-> 20, step |-> 20]
    ELSE [x |-> GridRect(Perimeter[(k % 12) + 1]).MinX + 90,
          y |-> GridRect(Perimeter[(k % 12) + 1]).MinY + 25,
          d |-> 25, step |-> 25]

\* text, position and horizontal anchor of a draw call
Placed(c) == [s |-> c.s, x |-> c.x, y |-> c.y, ax2 |-> c.ax2]

\* the label draw calls issued so far, in order
LabelsDrawn ==
    LET ls == SelectSeq(draws, IsLabelDraw)
    IN  [i \in 1..Len(ls) |-> Placed(ls[i])]

\* the label draw calls slot k is to issue: one per entry of the regular
\* group, right-aligned left of the anchor, then one per entry of the special
\* group, left-aligned right of it, entry i on row i
LabelsOf(k) ==
    LET a == LabelAnchor(k)
    IN  [i \in 1..Len(cells[k].regular) |->
            [s |-> cells[k].regular[i], x |-> a.x - a.d,
             y |-> a.y + (i - 1) * a.step, ax2 |-> 2]]
          \o [i \in 1..Len(cells[k].special) |->
                [s |-> cells[k].special[i], x |-> a.x + a.d,
                 y |-> a.y + (i - 1) * a.step, ax2 |-> 0]]

\* the label draw calls of the slots rendered so far, slot after slot
LabelsOfDone ==
    LET upTo[k \in 0..12] ==
            IF k = 0 THEN <<>>
            ELSE upTo[k - 1] \o (IF cells[k].done THEN LabelsOf(k) ELSE <<>>)
    IN  upTo[12]

\* C25: the label draw calls issued are, slot after slot, one for every
\* entry of the slot's two groups and no other: regular[i] at (anchor x - d,
\* anchor y + i * step), special[i] at (anchor x + d, anchor y + i * step),
\* i from 0, step 20 and d 20 in the north style, step 25 and d 25 in the
\* south style, with the whole label as text; a slot with two empty groups
\* issues none
C25_LabelDraws ==
    Rendering =>
        \E drawn \in {LabelsDrawn} :
            /\ drawn = LabelsOfDone
            /\ \A k \in 1..12 :
                   (cells[k].done /\ cells[k].regular = <<>> /\ cells[k].special = <<>>) =>
                       \E a \in {LabelAnchor(k)} :
                           \A i \in DOMAIN drawn :
                               ~(/\ drawn[i].x \in {a.x - a.d, a.x + a.d}
                                 /\ drawn[i].y >= a.y
                                 /\ drawn[i].y < a.y + 4 * a.step)

C25_Witness ==
    /\ input.ChartType = ChartTypeNorth
    /\ pc = "done"
    /\ cells[1].regular = <<"Asc", "Su", "Mo">>
    /\ cells[2].regular = <<>> /\ cells[2].special = <<>>
    /\ LabelsDrawn = << [s |-> "Asc", x |-> 360, y |-> 140, ax2 |-> 2],
                        [s |-> "Su", x |-> 360, y |-> 160, ax2 |-> 2],
                        [s |-> "Mo", x |-> 360, y |-> 180, ax2 |-> 2] >>



\* how many times the canvas was cleared: once per run of a renderer
Renders == Cardinality({i \in DOMAIN draws : draws[i].op = "clear"})

\* C26: when the encoder fails in the selected renderer, the renderer returns
\* no bytes with its error, and GenerateChart returns the empty string and an
\* error that wraps the encoder's; a call never returns a string together
\* with an error, returns an error only if something failed, and runs the
\* renderer once
C26_FailurePropagated ==
    /\ pc = "done" => (result.err # NoErr => result.str = "")
    /\ pc # "done" => result = NoResult
    /\ (Rendering /\ pc = "done") =>
           /\ Renders = 1
           /\ AllCellsDone
           /\ result.err = NoErr <=> EncoderWorks
           /\ ~EncoderWorks =>
                  /\ encodePNG(draws).err # NoErr
                  /\ encodePNG(draws).bytes = <<>>
                  /\ result.str = ""
                  /\ result.err # NoErr
                  /\ Contains(result.err, "png: encode")
                  /\ Contains(result.err, encodePNG(draws).err)

C26_Witness ==
    /\ input.ChartType = ChartTypeNorth
    /\ encoder = "fails"
    /\ pc = "done"
    /\ AllCellsDone
    /\ cells[1].regular = <<"Asc", "Su">>
    /\ Renders = 1
    /\ result = [str |-> "", err |-> "failed to generate chart: png: encode"]



\* the sign numbers drawn in the north style so far, by slot: the texts
\* anchored at their centre
NorthNumbersDrawn == SelectSeq(draws, LAMBDA c : IsText(c) /\ c.ax2 = 1 /\ c.ay2 = 1)

\* C27: in the north style the number drawn at the number position of slot N
\* is the sign with which the occupants of slot N are collected, for every N
\* in 1..12, so every planet's label is in the slot that shows the number of
\* the planet's sign
C27_NumberMatchesOccupants ==
    input.ChartType = ChartTypeNorth =>
        \A k \in 1..12 :
            cells[k].done =>
                /\ Len(NorthNumbersDrawn) = 12
                /\ NorthNumbersDrawn[k].x = (IF k = 1 THEN 400 ELSE rashiPositions(k).x)
                /\ NorthNumbersDrawn[k].y = (IF k = 1 THEN 300 ELSE rashiPositions(k).y)
                /\ cells[k].rashiNum \in 1..12
                /\ NorthNumbersDrawn[k].s = Sprintf_d(cells[k].rashiNum)
                /\ cells[k].rashiStr = NorthNumbersDrawn[k].s
                /\ \A n \in Names(k) :
                       Sprintf_d(RashiToNumber(input.Planets[n].Rashi)) = NorthNumbersDrawn[k].s

C27_Witness ==
    /\ input.ChartType = ChartTypeNorth
    /\ AscendantSign = 5
    /\ pc = "done"
    /\ Len(NorthNumbersDrawn) = 12
    /\ NorthNumbersDrawn[1].s = "5"
    /\ NorthNumbersDrawn[12].s = "4"
    /\ NorthNumbersDrawn[10].s = "2" /\ cells[10].rashiNum = 2 /\ cells[10].who = <<"sun">>
    /\ NorthNumbersDrawn[9].s = "1" /\ cells[9].rashiNum = 1 /\ cells[9].who = <<"moon">>


====
